---- MODULE Spec2Model ----
(***************************************************************************)
(* rfconversions: the noise and P1dB cascades and the scalar conversions  *)
(* (P1dB, noise, power, frequency).                                        *)
(*                                                                         *)
(* Every function of the library is a pure function of f64 values.  An    *)
(* f64 is modelled as an exact rational n/d extended with the IEEE-754    *)
(* special values (+0, -0, +inf, -inf, NaN).  log10 of a positive        *)
(* rational that is no power of ten is kept as the exact symbolic value   *)
(* c * log10(n/d), so that 10^x and log10 are computed, not assumed to    *)
(* cancel.  dB inputs of 10^x are drawn from the multiples of 10 dB,      *)
(* where 10^x is rational.                                                *)
(*                                                                         *)
(* SpecT runs the cascade functions statement by statement in NumThreads  *)
(* threads at once.                                                        *)
(*                                                                         *)
(* Spec computes in exact arithmetic (rounding = FALSE).  SpecF computes   *)
(* the functions made of +, -, * and / alone in a binary floating-point   *)
(* format with SignificandBits bits and round-to-nearest-even, the        *)
(* rounding rule of f64 with a shorter significand; overflow and          *)
(* underflow of the exponent are not modelled.                            *)
(***************************************************************************)
EXTENDS Integers, Sequences, FiniteSets, TLC

VARIABLES
    pc,             \* "ready": arguments built, no call made; "returned"; "panicked"
    call,           \* the library function that was called ("none" before the call)
    stages,         \* the caller's stage chain, a sequence of <<parameter, gain>>
    args,           \* the scalar arguments of a scalar function
    linear_stages,  \* cascade_noise_figure's local Vec of converted stages
    locals,         \* cascade_output_p1db's converted arguments
    result,         \* the returned f64 (NoValue when nothing was returned)
    panic_msg,      \* the panic message ("" when there was no panic)
    prev,           \* the call whose result was passed on to the current call
    rounding,       \* TRUE: every operation rounds to SignificandBits bits
    threads,        \* SpecT: the stack frame of each thread's cascade call
    fold            \* the caller's cumulative P1dB after each stage of a fold

vars == <<pc, call, stages, args, linear_stages, locals, result, panic_msg,
          prev, rounding, threads, fold>>

(***************************************************************************)
(* Bounds of the model.                                                    *)
(***************************************************************************)
MaxStages == 3
\* bits of the significand of the rounded format (f64 has 53)
SignificandBits == 5
\* threads calling the library at the same time
NumThreads == 2

(***************************************************************************)
(* f64 values.                                                             *)
(*   k = "fin"   : the rational n/d, d > 0, in lowest terms (n = 0 is +0)  *)
(*   k = "nzero" : -0.0                                                    *)
(*   k = "pinf", "ninf", "nan" : the IEEE specials                         *)
(*   k = "log"   : c * log10(n/d), n/d > 0 no power of ten, c # 0          *)
(*   k = "none"  : no value (the call did not return)                      *)
(***************************************************************************)
Abs(i) == IF i < 0 THEN -i ELSE i

RECURSIVE GCD(_, _)
GCD(a, b) == IF b = 0 THEN a ELSE GCD(b, a % b)

Fin(n, d) ==
    LET g == GCD(Abs(n), Abs(d))
        s == IF d < 0 THEN -1 ELSE 1
    IN  [k |-> "fin", n |-> (s * n) \div g, d |-> (s * d) \div g, c |-> 0]

Zero    == [k |-> "fin",   n |-> 0, d |-> 1, c |-> 0]
NegZero == [k |-> "nzero", n |-> 0, d |-> 1, c |-> 0]
PosInf  == [k |-> "pinf",  n |-> 0, d |-> 1, c |-> 0]
NegInf  == [k |-> "ninf",  n |-> 0, d |-> 1, c |-> 0]
NaN     == [k |-> "nan",   n |-> 0, d |-> 1, c |-> 0]
NoValue == [k |-> "none",  n |-> 0, d |-> 1, c |-> 0]
One     == [k |-> "fin",   n |-> 1, d |-> 1, c |-> 0]
Ten     == [k |-> "fin",   n |-> 10, d |-> 1, c |-> 0]
LogOf(n, d, c) == [k |-> "log", n |-> n, d |-> d, c |-> c]

\* A value the model cannot represent: evaluating it stops the check.
Unrepresentable == CHOOSE x \in {} : TRUE

IsNaN(x)  == x.k = "nan"
IsInf(x)  == x.k \in {"pinf", "ninf"}
IsZero(x) == x.k = "nzero" \/ (x.k = "fin" /\ x.n = 0)
IsLog(x)  == x.k = "log"
\* the sign bit of a non-NaN, non-symbolic value
SignBit(x) == x.k \in {"nzero", "ninf"} \/ (x.k = "fin" /\ x.n < 0)
SignedZero(neg) == IF neg THEN NegZero ELSE Zero
SignedInf(neg)  == IF neg THEN NegInf ELSE PosInf

\* unary minus
Neg(x) ==
    CASE x.k = "nan"   -> NaN
      [] x.k = "pinf"  -> NegInf
      [] x.k = "ninf"  -> PosInf
      [] x.k = "nzero" -> Zero
      [] x.k = "log"   -> LogOf(x.n, x.d, -x.c)
      [] x.k = "fin"   -> IF x.n = 0 THEN NegZero ELSE Fin(-x.n, x.d)

\* a + b
Add(a, b) ==
    IF IsNaN(a) \/ IsNaN(b) THEN NaN
    ELSE IF IsInf(a) THEN (IF IsInf(b) /\ a.k # b.k THEN NaN ELSE a)
    ELSE IF IsInf(b) THEN b
    ELSE IF IsLog(a) \/ IsLog(b) THEN Unrepresentable
    ELSE IF IsZero(a) /\ IsZero(b)
         THEN SignedZero(SignBit(a) /\ SignBit(b))
    ELSE IF IsZero(a) THEN b
    ELSE IF IsZero(b) THEN a
    ELSE LET g == GCD(a.d, b.d)
             l == (a.d \div g) * b.d
         IN  Fin(a.n * (l \div a.d) + b.n * (l \div b.d), l)

\* a - b
Sub(a, b) == Add(a, Neg(b))

\* a * b
Mul(a, b) ==
    IF IsNaN(a) \/ IsNaN(b) THEN NaN
    ELSE IF IsLog(a) \/ IsLog(b) THEN
         (IF IsLog(a) /\ b.k = "fin" /\ b.d = 1 /\ b.n # 0
              THEN LogOf(a.n, a.d, a.c * b.n)
          ELSE IF IsLog(b) /\ a.k = "fin" /\ a.d = 1 /\ a.n # 0
              THEN LogOf(b.n, b.d, b.c * a.n)
          ELSE Unrepresentable)
    ELSE IF (IsInf(a) /\ IsZero(b)) \/ (IsZero(a) /\ IsInf(b)) THEN NaN
    ELSE IF IsInf(a) \/ IsInf(b) THEN SignedInf(SignBit(a) # SignBit(b))
    ELSE IF IsZero(a) \/ IsZero(b) THEN SignedZero(SignBit(a) # SignBit(b))
    ELSE LET g1 == GCD(Abs(a.n), b.d)
             g2 == GCD(Abs(b.n), a.d)
         IN  Fin((a.n \div g1) * (b.n \div g2), (a.d \div g2) * (b.d \div g1))

\* a / b
Div(a, b) ==
    IF IsNaN(a) \/ IsNaN(b) THEN NaN
    ELSE IF IsLog(a) \/ IsLog(b) THEN
         (IF IsLog(a) /\ b.k = "fin" /\ b.d = 1 /\ b.n # 0 /\ a.c % b.n = 0
              THEN LogOf(a.n, a.d, a.c \div b.n)
          ELSE Unrepresentable)
    ELSE IF (IsInf(a) /\ IsInf(b)) \/ (IsZero(a) /\ IsZero(b)) THEN NaN
    ELSE IF IsInf(a) \/ IsZero(b) THEN SignedInf(SignBit(a) # SignBit(b))
    ELSE IF IsInf(b) \/ IsZero(a) THEN SignedZero(SignBit(a) # SignBit(b))
    ELSE Mul(a, Fin(b.d, b.n))

RECURSIVE IsPowerOfTen(_)
IsPowerOfTen(m) ==
    IF m = 1 THEN TRUE
    ELSE IF m > 1 /\ m % 10 = 0 THEN IsPowerOfTen(m \div 10)
    ELSE FALSE

RECURSIVE IntLog10(_)
IntLog10(m) == IF m = 1 THEN 0 ELSE 1 + IntLog10(m \div 10)

RECURSIVE IntPow(_, _)
IntPow(b, e) == IF e = 0 THEN 1 ELSE b * IntPow(b, e - 1)

\* f64::log10
log10(x) ==
    CASE x.k = "nan"   -> NaN
      [] x.k = "ninf"  -> NaN
      [] x.k = "pinf"  -> PosInf
      [] x.k = "nzero" -> NegInf
      [] x.k = "log"   -> Unrepresentable
      [] x.k = "fin"   ->
            IF x.n < 0 THEN NaN
            ELSE IF x.n = 0 THEN NegInf
            ELSE IF x.d = 1 /\ IsPowerOfTen(x.n) THEN Fin(IntLog10(x.n), 1)
            ELSE IF x.n = 1 /\ IsPowerOfTen(x.d) THEN Fin(-IntLog10(x.d), 1)
            ELSE LogOf(x.n, x.d, 1)

\* 10.0_f64.powf(x)
powf10(x) ==
    CASE x.k = "nan"   -> NaN
      [] x.k = "ninf"  -> Zero
      [] x.k = "pinf"  -> PosInf
      [] x.k = "nzero" -> One
      [] x.k = "log"   ->
            IF x.c > 0 THEN Fin(IntPow(x.n, x.c), IntPow(x.d, x.c))
            ELSE Fin(IntPow(x.d, -x.c), IntPow(x.n, -x.c))
      [] x.k = "fin"   ->
            IF x.d # 1 THEN Unrepresentable
            ELSE IF x.n >= 0 THEN Fin(IntPow(10, x.n), 1)
            ELSE Fin(1, IntPow(10, -x.n))

(***************************************************************************)
(* Rounding.  Normalize scales |x| = (n/d) * 2^e until                     *)
(* 2^(SignificandBits-1) <= n/d < 2^SignificandBits; Round then rounds n/d *)
(* to the nearest integer, ties to the even one.                           *)
(***************************************************************************)
RECURSIVE Normalize(_, _, _)
Normalize(n, d, e) ==
    IF n >= d * IntPow(2, SignificandBits) THEN Normalize(n, 2 * d, e + 1)
    ELSE IF n < d * IntPow(2, SignificandBits - 1) THEN Normalize(2 * n, d, e - 1)
    ELSE <<n, d, e>>

Round(x) ==
    IF x.k # "fin" \/ x.n = 0 THEN x
    ELSE LET t   == Normalize(Abs(x.n), x.d, 0)
             m   == t[1] \div t[2]
             r   == t[1] - m * t[2]
             up  == 2 * r > t[2] \/ (2 * r = t[2] /\ m % 2 = 1)
             q   == IF up THEN m + 1 ELSE m
             sgn == IF x.n < 0 THEN -1 ELSE 1
         IN  IF t[3] >= 0 THEN Fin(sgn * q * IntPow(2, t[3]), 1)
             ELSE Fin(sgn * q, IntPow(2, -t[3]))

\* the value an f64 operation or literal yields
Rnd(x) == IF rounding THEN Round(x) ELSE x

FAdd(a, b) == Rnd(Add(a, b))
FSub(a, b) == Rnd(Sub(a, b))
FMul(a, b) == Rnd(Mul(a, b))
FDiv(a, b) == Rnd(Div(a, b))
\* the literal n/d of the source text
Lit(n, d) == Rnd(Fin(n, d))

(***************************************************************************)
(* f64 values far from 1 (hertz, watts) are kept in scientific notation:   *)
(* [m, e] is m * 10^e, m an exact value as above.  A finite non-zero m is  *)
(* n/d with n no multiple of 10 and d coprime to 10, which makes the       *)
(* pair unique; every other m has e = 0.                                   *)
(***************************************************************************)
RECURSIVE DecCanon(_, _, _)
DecCanon(n, d, e) ==
    IF n % 10 = 0 THEN DecCanon(n \div 10, d, e + 1)
    ELSE IF d % 2 = 0 THEN DecCanon(5 * n, d \div 2, e - 1)
    ELSE IF d % 5 = 0 THEN DecCanon(2 * n, d \div 5, e - 1)
    ELSE [m |-> Fin(n, d), e |-> e]

Dec(x, e) ==
    IF x.k = "fin" /\ x.n # 0 THEN DecCanon(x.n, x.d, e) ELSE [m |-> x, e |-> 0]

\* the literal n * 10^e of the source text
DecLit(n, e) == Dec(Fin(n, 1), e)

\* 10^e as an exact value
PowerOfTen(e) == IF e >= 0 THEN Fin(IntPow(10, e), 1) ELSE Fin(1, IntPow(10, -e))

\* a * b and a / b; when rounding, the result is the value of the format
\* nearest to the exact product or quotient, kept with e = 0
DecMul(a, b) ==
    IF rounding
    THEN [m |-> Round(Mul(Mul(a.m, b.m), PowerOfTen(a.e + b.e))), e |-> 0]
    ELSE Dec(Mul(a.m, b.m), a.e + b.e)
DecDiv(a, b) ==
    IF rounding
    THEN [m |-> Round(Mul(Div(a.m, b.m), PowerOfTen(a.e - b.e))), e |-> 0]
    ELSE Dec(Div(a.m, b.m), a.e - b.e)

(***************************************************************************)
(* constants.rs                                                            *)
(***************************************************************************)
SPEED_OF_LIGHT == 299792458
\* 1.380649e-23
BOLTZMANN == DecLit(1380649, -29)
T0 == 290

(***************************************************************************)
(* power.rs                                                                *)
(***************************************************************************)
db_to_linear(value) == powf10(Div(value, Ten))

linear_to_db(value) == Mul(Ten, log10(value))

watts_to_dbm_clamped(watts) ==
    IF IsZero(watts) \/ SignBit(watts) THEN Fin(-300, 1)
    ELSE Mul(Ten, Add(log10(watts), Fin(3, 1)))

watts_to_dbm(watts) == Mul(Ten, Add(log10(watts), Fin(3, 1)))

milliwatts_to_dbm(mw) == Mul(Ten, log10(mw))

watts_to_dbw(watts) == Mul(Ten, log10(watts))

\* the public function called name, applied to x
log_conversion(name, x) ==
    CASE name = "watts_to_dbm" -> watts_to_dbm(x)
      [] name = "milliwatts_to_dbm" -> milliwatts_to_dbm(x)
      [] name = "watts_to_dbw" -> watts_to_dbw(x)
      [] name = "linear_to_db" -> linear_to_db(x)

LogConversions == {"watts_to_dbm", "milliwatts_to_dbm", "watts_to_dbw", "linear_to_db"}

dbm_to_dbw_adds(dbm) == FAdd(dbm, Lit(30, 1))

dbm_to_dbw(dbm) == FSub(dbm, Lit(30, 1))

dbw_to_dbm(dbw) == FAdd(dbw, Lit(30, 1))

(***************************************************************************)
(* frequency.rs                                                            *)
(***************************************************************************)
frequency_to_wavelength(frequency) == FDiv(Lit(SPEED_OF_LIGHT, 1), frequency)

wavelength_to_frequency_two_way(wavelength) ==
    FDiv(Lit(SPEED_OF_LIGHT, 1), FAdd(wavelength, wavelength))

wavelength_to_frequency(wavelength) == FDiv(Lit(SPEED_OF_LIGHT, 1), wavelength)

\* the twenty unit conversions
thz_to_ghz(thz) == DecMul(thz, DecLit(1, 3))
thz_to_mhz(thz) == DecMul(thz, DecLit(1, 6))
thz_to_khz(thz) == DecMul(thz, DecLit(1, 9))
thz_to_hz(thz) == DecMul(thz, DecLit(1, 12))
ghz_to_thz(ghz) == DecDiv(ghz, DecLit(1, 3))
ghz_to_mhz_divides(ghz) == DecDiv(ghz, DecLit(1, 3))
ghz_to_mhz(ghz) == DecMul(ghz, DecLit(1, 3))
ghz_to_khz(ghz) == DecMul(ghz, DecLit(1, 6))
ghz_to_hz(ghz) == DecMul(ghz, DecLit(1, 9))
mhz_to_thz(mhz) == DecDiv(mhz, DecLit(1, 6))
mhz_to_ghz(mhz) == DecDiv(mhz, DecLit(1, 3))
mhz_to_khz(mhz) == DecMul(mhz, DecLit(1, 3))
mhz_to_hz(mhz) == DecMul(mhz, DecLit(1, 6))
khz_to_thz(khz) == DecDiv(khz, DecLit(1, 9))
khz_to_ghz(khz) == DecDiv(khz, DecLit(1, 6))
khz_to_mhz(khz) == DecDiv(khz, DecLit(1, 3))
khz_to_hz_scales_by_mega(khz) == DecMul(khz, DecLit(1, 6))
khz_to_hz(khz) == DecMul(khz, DecLit(1, 3))
hz_to_thz(hz) == DecDiv(hz, DecLit(1, 12))
hz_to_ghz(hz) == DecDiv(hz, DecLit(1, 9))
hz_to_mhz(hz) == DecDiv(hz, DecLit(1, 6))
hz_to_khz(hz) == DecDiv(hz, DecLit(1, 3))

\* the public function called name, applied to x
unit_conversion(name, x) ==
    CASE name = "thz_to_ghz" -> thz_to_ghz(x)
      [] name = "thz_to_mhz" -> thz_to_mhz(x)
      [] name = "thz_to_khz" -> thz_to_khz(x)
      [] name = "thz_to_hz" -> thz_to_hz(x)
      [] name = "ghz_to_thz" -> ghz_to_thz(x)
      [] name = "ghz_to_mhz" -> ghz_to_mhz(x)
      [] name = "ghz_to_khz" -> ghz_to_khz(x)
      [] name = "ghz_to_hz" -> ghz_to_hz(x)
      [] name = "mhz_to_thz" -> mhz_to_thz(x)
      [] name = "mhz_to_ghz" -> mhz_to_ghz(x)
      [] name = "mhz_to_khz" -> mhz_to_khz(x)
      [] name = "mhz_to_hz" -> mhz_to_hz(x)
      [] name = "khz_to_thz" -> khz_to_thz(x)
      [] name = "khz_to_ghz" -> khz_to_ghz(x)
      [] name = "khz_to_mhz" -> khz_to_mhz(x)
      [] name = "khz_to_hz" -> khz_to_hz(x)
      [] name = "hz_to_thz" -> hz_to_thz(x)
      [] name = "hz_to_ghz" -> hz_to_ghz(x)
      [] name = "hz_to_mhz" -> hz_to_mhz(x)
      [] name = "hz_to_khz" -> hz_to_khz(x)

\* every unit conversion, with the unit it reads and the unit it returns:
\* <<name, from, to>>
UnitConversions ==
    {<<"thz_to_ghz", "thz", "ghz">>,
     <<"thz_to_mhz", "thz", "mhz">>,
     <<"thz_to_khz", "thz", "khz">>,
     <<"thz_to_hz", "thz", "hz">>,
     <<"ghz_to_thz", "ghz", "thz">>,
     <<"ghz_to_mhz", "ghz", "mhz">>,
     <<"ghz_to_khz", "ghz", "khz">>,
     <<"ghz_to_hz", "ghz", "hz">>,
     <<"mhz_to_thz", "mhz", "thz">>,
     <<"mhz_to_ghz", "mhz", "ghz">>,
     <<"mhz_to_khz", "mhz", "khz">>,
     <<"mhz_to_hz", "mhz", "hz">>,
     <<"khz_to_thz", "khz", "thz">>,
     <<"khz_to_ghz", "khz", "ghz">>,
     <<"khz_to_mhz", "khz", "mhz">>,
     <<"khz_to_hz", "khz", "hz">>,
     <<"hz_to_thz", "hz", "thz">>,
     <<"hz_to_ghz", "hz", "ghz">>,
     <<"hz_to_mhz", "hz", "mhz">>,
     <<"hz_to_khz", "hz", "khz">>}

(***************************************************************************)
(* noise.rs: single-stage conversions                                      *)
(***************************************************************************)
noise_temperature_from_noise_factor(noise_factor) ==
    Mul(Fin(290, 1), Sub(noise_factor, One))

noise_factor_from_noise_figure(noise_figure) == powf10(Div(noise_figure, Ten))

noise_temperature_from_noise_figure(noise_figure) ==
    noise_temperature_from_noise_factor(noise_factor_from_noise_figure(noise_figure))

noise_factor_from_noise_temperature_no_one(noise_temperature) ==
    Div(noise_temperature, Fin(290, 1))

noise_factor_from_noise_temperature(noise_temperature) ==
    Add(One, Div(noise_temperature, Fin(290, 1)))

noise_figure_from_noise_factor(noise_factor) == Mul(Ten, log10(noise_factor))

noise_figure_from_noise_temperature_skips_factor(noise_temperature) ==
    noise_figure_from_noise_factor(noise_temperature)

noise_figure_from_noise_temperature(noise_temperature) ==
    noise_figure_from_noise_factor(noise_factor_from_noise_temperature(noise_temperature))

\* 1.38e-23 * temperature * bandwidth
noise_power_from_bandwidth(temperature, bandwidth) ==
    DecMul(DecMul(DecLit(138, -25), temperature), bandwidth)

(***************************************************************************)
(* The outcome of a call: a returned value or a panic.                     *)
(***************************************************************************)
Ret(v)   == [kind |-> "ret",   value |-> v,       msg |-> ""]
Panic(m) == [kind |-> "panic", value |-> NoValue, msg |-> m]

EmptyMsg == "stages must not be empty"

(***************************************************************************)
(* noise.rs: cascade_noise_factor                                          *)
(***************************************************************************)
\* mutant: the cumulative gain is updated before it divides (the stage's own
\* gain is counted in)
noise_factor_step_gain_first(acc, stage) ==
    LET cumulative_gain == Mul(acc[2], stage[2])
        f_total == Add(acc[1], Div(Sub(stage[1], One), cumulative_gain))
    IN  <<f_total, cumulative_gain>>

\* mutant: the excess-noise term loses its "- 1"
noise_factor_step_no_minus_one(acc, stage) ==
    LET f_total == Add(acc[1], Div(stage[1], acc[2]))
        cumulative_gain == Mul(acc[2], stage[2])
    IN  <<f_total, cumulative_gain>>

\* mutant: the excess noise of a stage is taken off the total
noise_factor_step_subtracts(acc, stage) ==
    LET f_total == Sub(acc[1], Div(Sub(stage[1], One), acc[2]))
        cumulative_gain == Mul(acc[2], stage[2])
    IN  <<f_total, cumulative_gain>>

\* the loop body: acc = <<f_total, cumulative_gain>>, stage = <<noise_factor, gain>>
noise_factor_step(acc, stage) ==
    LET f_total == Add(acc[1], Div(Sub(stage[1], One), acc[2]))
        cumulative_gain == Mul(acc[2], stage[2])
    IN  <<f_total, cumulative_gain>>

\* mutant: the loop runs over every stage, the first included (stages, not
\* stages[1..])
RECURSIVE noise_factor_loop_from_first(_, _)
noise_factor_loop_from_first(s, i) ==
    noise_factor_step(IF i = 1 THEN <<s[1][1], s[1][2]>>
                      ELSE noise_factor_loop_from_first(s, i - 1), s[i])

\* the accumulators after the loop has consumed stages[2..i]
RECURSIVE noise_factor_loop(_, _)
noise_factor_loop(s, i) ==
    IF i = 1 THEN <<s[1][1], s[1][2]>>
    ELSE noise_factor_step(noise_factor_loop(s, i - 1), s[i])

\* mutant: an empty chain is answered with the neutral noise factor 1
cascade_noise_factor_default(s) ==
    IF Len(s) = 0 THEN Ret(One)
    ELSE Ret(noise_factor_loop(s, Len(s))[1])

cascade_noise_factor(s) ==
    IF Len(s) = 0 THEN Panic(EmptyMsg)
    ELSE Ret(noise_factor_loop(s, Len(s))[1])

(***************************************************************************)
(* noise.rs: cascade_noise_figure                                          *)
(***************************************************************************)
\* mutant: the converted stages are collected in reverse order
to_linear_stages_reversed(s) ==
    [i \in 1..Len(s) |->
        <<noise_factor_from_noise_figure(s[Len(s) + 1 - i][1]),
          db_to_linear(s[Len(s) + 1 - i][2])>>]

\* stages.iter().map(|&(nf_db, gain_db)| (..)).collect()
to_linear_stages(s) ==
    [i \in 1..Len(s) |->
        <<noise_factor_from_noise_figure(s[i][1]), db_to_linear(s[i][2])>>]

\* mutant: an empty chain is treated as 0 dB instead of being delegated
cascade_noise_figure_empty_unity(s) ==
    IF Len(s) = 0 THEN Ret(Zero)
    ELSE Ret(noise_figure_from_noise_factor(
                 cascade_noise_factor(to_linear_stages(s)).value))

cascade_noise_figure(s) ==
    LET r == cascade_noise_factor(to_linear_stages(s))
    IN  IF r.kind = "panic" THEN r
        ELSE Ret(noise_figure_from_noise_factor(r.value))

(***************************************************************************)
(* noise.rs: cascade_noise_temperature                                     *)
(***************************************************************************)
\* mutant: the cumulative gain is updated before it divides
noise_temperature_step_gain_first(acc, stage) ==
    LET cumulative_gain == Mul(acc[2], stage[2])
        t_total == Add(acc[1], Div(stage[1], cumulative_gain))
    IN  <<t_total, cumulative_gain>>

\* the loop body: acc = <<t_total, cumulative_gain>>, stage = <<temp, gain>>
noise_temperature_step(acc, stage) ==
    LET t_total == Add(acc[1], Div(stage[1], acc[2]))
        cumulative_gain == Mul(acc[2], stage[2])
    IN  <<t_total, cumulative_gain>>

RECURSIVE noise_temperature_loop(_, _)
noise_temperature_loop(s, i) ==
    IF i = 1 THEN <<s[1][1], s[1][2]>>
    ELSE noise_temperature_step(noise_temperature_loop(s, i - 1), s[i])

\* mutant: a chain with a gain that is not positive is rejected
cascade_noise_temperature_validating(s) ==
    IF Len(s) = 0 THEN Panic(EmptyMsg)
    ELSE IF \E i \in 1..Len(s) : s[i][2].k # "fin" \/ s[i][2].n <= 0
         THEN Panic("gain must be positive")
    ELSE Ret(noise_temperature_loop(s, Len(s))[1])

cascade_noise_temperature(s) ==
    IF Len(s) = 0 THEN Panic(EmptyMsg)
    ELSE Ret(noise_temperature_loop(s, Len(s))[1])

(***************************************************************************)
(* p1db.rs                                                                 *)
(***************************************************************************)
\* mutant: the cumulative term is divided by the stage gain
cascade_output_p1db_linear_gain_divides(cumulative_output_p1db_linear, current_stage_output_p1db_linear, current_stage_gain_linear) ==
    Div(One,
        Add(Div(Div(One, cumulative_output_p1db_linear), current_stage_gain_linear),
            Div(One, current_stage_output_p1db_linear)))

cascade_output_p1db_linear(cumulative_output_p1db_linear, current_stage_output_p1db_linear, current_stage_gain_linear) ==
    Div(One,
        Add(Mul(Div(One, cumulative_output_p1db_linear), current_stage_gain_linear),
            Div(One, current_stage_output_p1db_linear)))

\* mutant: the stage's OP1dB and its gain change places
p1db_locals_swapped(cumulative_output_p1db, current_stage_output_p1db, current_stage_gain) ==
    <<db_to_linear(cumulative_output_p1db),
      db_to_linear(current_stage_gain),
      db_to_linear(current_stage_output_p1db)>>

\* the three locals of cascade_output_p1db, in the order they are passed on
p1db_locals(cumulative_output_p1db, current_stage_output_p1db, current_stage_gain) ==
    <<db_to_linear(cumulative_output_p1db),
      db_to_linear(current_stage_output_p1db),
      db_to_linear(current_stage_gain)>>

cascade_output_p1db(cumulative_output_p1db, current_stage_output_p1db, current_stage_gain) ==
    LET l == p1db_locals(cumulative_output_p1db, current_stage_output_p1db,
                         current_stage_gain)
    IN  linear_to_db(cascade_output_p1db_linear(l[1], l[2], l[3]))

(***************************************************************************)
(* p1db.rs: input and output referred P1dB                                 *)
(***************************************************************************)
input_to_output_db_no_offset(input_p1db, gain_db) == FAdd(input_p1db, gain_db)

input_to_output_db(input_p1db, gain_db) ==
    FAdd(input_p1db, FSub(gain_db, Lit(1, 1)))

output_to_input_db_adds_gain(output_p1db, gain_db) ==
    FAdd(output_p1db, FSub(gain_db, Lit(1, 1)))

output_to_input_db(output_p1db, gain_db) ==
    FSub(output_p1db, FSub(gain_db, Lit(1, 1)))

(***************************************************************************)
(* Inputs.                                                                 *)
(***************************************************************************)
NoiseFactors   == {One, Fin(28, 25), Fin(2, 1), Fin(631, 100)}
LinearGains    == {Zero, Fin(1, 5), One, Fin(100, 1)}
Temperatures   == {Zero, Fin(35, 1), Fin(75, 1), Fin(290, 1)}
NoiseFiguresDb == {Zero, Fin(10, 1), Fin(20, 1)}
GainsDb        == {Fin(-10, 1), Zero, Fin(20, 1)}
P1dbLinear     == {Zero, One, Fin(2, 1), Fin(50, 1), Fin(100, 1)}
GainsP1db      == {Zero, Fin(1, 10), One, Fin(2, 1)}
P1dbDb         == {Zero, Fin(20, 1), Fin(30, 1)}
GainsP1dbDb    == {Fin(-10, 1), Zero, Fin(10, 1), Fin(30, 1)}

StageLNA   == <<Fin(28, 25), Fin(100, 1)>>
StageMixer == <<Fin(631, 100), Fin(1, 5)>>

ChainsOver(S) == UNION {[1..n -> S] : n \in 0..MaxStages}

LinearChains      == ChainsOver(NoiseFactors \X LinearGains)
TemperatureChains == ChainsOver(Temperatures \X LinearGains)
DbChains          == ChainsOver(NoiseFiguresDb \X GainsDb)

\* chains no physical system has: negative noise parameters, zero and
\* negative gains (every value is also a multiple of 10 dB)
UnvalidatedChains ==
    {<<<<Fin(-10, 1), Fin(-10, 1)>>, <<Fin(10, 1), Zero>>>>,
     <<<<Zero, Zero>>, <<Fin(-10, 1), Fin(10, 1)>>>>,
     <<<<Fin(10, 1), Zero>>, <<Zero, Fin(-10, 1)>>, <<Fin(10, 1), Fin(10, 1)>>>>,
     <<<<Fin(-10, 1), Fin(-10, 1)>>>>}

LinearTriples == P1dbLinear \X P1dbLinear \X GainsP1db
DbTriples     == P1dbDb \X P1dbDb \X GainsP1dbDb

\* chains of (OP1dB, gain) stages, in dBm and dB
P1dbDbChains ==
    ChainsOver({Fin(10, 1), Fin(20, 1), Fin(30, 1)}
                   \X {Fin(-10, 1), Zero, Fin(10, 1), Fin(20, 1)}) \ {<<>>}

\* chains of (OP1dB, gain) stages, in milliwatts and as power ratios
P1dbLinearChains ==
    ChainsOver({Fin(50, 1), Fin(100, 1)} \X {Fin(1, 10), One, Fin(2, 1)}) \ {<<>>}

\* scalar arguments are the f64 nearest to the decimal literal
P1dbValues == {Zero, Fin(1, 10), Fin(9, 1), Fin(76, 5), Fin(20, 1)}
GainValues == {Fin(-10, 1), Zero, Fin(13, 10), Fin(41, 1)}
P1dbPairs  == {<<Rnd(p), Rnd(g)>> : p \in P1dbValues, g \in GainValues}

\* kelvin and hertz
NoisePowerArgs ==
    {DecLit(0, 0), DecLit(50, 0), DecLit(290, 0)}
        \X {DecLit(0, 0), DecLit(1, 0), DecLit(1, 6), DecLit(100, 6)}

\* hertz
FrequencyArgs ==
    {<<Rnd(f)>> : f \in {One, Fin(3, 1), Fin(7, 1), Fin(27, 1), Fin(53, 1),
                         Fin(1000, 1), Fin(915000, 1), Fin(1000000, 1)}}
\* dBm or dBW
DbPowerArgs ==
    {<<Rnd(d)>> : d \in {Fin(-174, 1), Zero, Fin(1, 10), Fin(123, 10),
                         Fin(23, 1), Fin(30, 1)}}

\* a frequency in any of the five units
UnitArgs ==
    IF rounding
    THEN {<<[m |-> Round(v), e |-> 0]>> :
             v \in {Zero, One, Fin(12, 5), Fin(7, 1), Fin(77, 1)}}
    ELSE {<<DecLit(0, 0)>>, <<DecLit(1, 0)>>, <<DecLit(24, -1)>>, <<DecLit(77, 0)>>,
          <<DecLit(275, 8)>>, <<DecLit(-5, 0)>>}

\* watts, milliwatts or a linear ratio: zero, negative and special values too
LogArgs ==
    {<<x>> : x \in {Zero, NegZero, Fin(-1, 1), Fin(-1, 1000), Fin(1, 1000), One,
                    Fin(100, 1), PosInf, NegInf, NaN}}

NoiseFactorArgs      == {<<f>> : f \in NoiseFactors \cup {Fin(4, 1), Fin(10, 1)}}
NoiseTemperatureArgs == {<<t>> : t \in Temperatures \cup {Fin(2610, 1)}}
NoiseFigureArgs      == {<<nf>> : nf \in NoiseFiguresDb \cup {Fin(30, 1)}}

ScalarArgs ==
    P1dbPairs \cup NoisePowerArgs \cup NoiseFactorArgs \cup NoiseTemperatureArgs
        \cup NoiseFigureArgs \cup FrequencyArgs \cup DbPowerArgs \cup UnitArgs
        \cup LogArgs

NoCall == [call |-> "none", args |-> <<>>, result |-> NoValue]

(***************************************************************************)
(* The state machine: the caller builds the arguments and makes a call;   *)
(* it may pass the result of a conversion on to the inverse conversion.    *)
(***************************************************************************)
Init ==
    /\ pc = "ready"
    /\ call = "none"
    /\ rounding = FALSE
    /\ \/ /\ stages \in LinearChains \cup TemperatureChains \cup DbChains
                         \cup P1dbDbChains \cup P1dbLinearChains
                         \cup UnvalidatedChains
          /\ args = <<>>
       \/ stages = <<>> /\ args \in LinearTriples \cup DbTriples \cup ScalarArgs
    /\ linear_stages = <<>>
    /\ locals = <<>>
    /\ result = NoValue
    /\ panic_msg = ""
    /\ prev = NoCall
    /\ threads = <<>>
    /\ fold = <<>>

\* the same caller, computing in the rounded format
InitF ==
    /\ pc = "ready"
    /\ call = "none"
    /\ rounding = TRUE
    /\ stages = <<>>
    /\ args \in P1dbPairs \cup FrequencyArgs \cup DbPowerArgs \cup UnitArgs
    /\ linear_stages = <<>>
    /\ locals = <<>>
    /\ result = NoValue
    /\ panic_msg = ""
    /\ prev = NoCall
    /\ threads = <<>>
    /\ fold = <<>>

\* the call returns or panics
Finish(name, outcome) ==
    /\ call' = name
    /\ pc' = IF outcome.kind = "panic" THEN "panicked" ELSE "returned"
    /\ result' = outcome.value
    /\ panic_msg' = outcome.msg

Call_cascade_noise_factor ==
    /\ pc = "ready" /\ args = <<>>
    /\ stages \in LinearChains \cup UnvalidatedChains
    /\ Finish("cascade_noise_factor", cascade_noise_factor(stages))
    /\ UNCHANGED <<stages, args, linear_stages, locals, prev, rounding, threads, fold>>

Call_cascade_noise_figure ==
    /\ pc = "ready" /\ args = <<>>
    /\ stages \in DbChains \cup UnvalidatedChains
    /\ linear_stages' = to_linear_stages(stages)
    /\ Finish("cascade_noise_figure", cascade_noise_figure(stages))
    /\ UNCHANGED <<stages, args, locals, prev, rounding, threads, fold>>

Call_cascade_noise_temperature ==
    /\ pc = "ready" /\ args = <<>>
    /\ stages \in TemperatureChains \cup UnvalidatedChains
    /\ Finish("cascade_noise_temperature", cascade_noise_temperature(stages))
    /\ UNCHANGED <<stages, args, linear_stages, locals, prev, rounding, threads, fold>>

Call_cascade_output_p1db_linear ==
    /\ pc = "ready"
    /\ args \in LinearTriples
    /\ Finish("cascade_output_p1db_linear",
              Ret(cascade_output_p1db_linear(args[1], args[2], args[3])))
    /\ UNCHANGED <<stages, args, linear_stages, locals, prev, rounding, threads, fold>>

Call_cascade_output_p1db ==
    /\ pc = "ready"
    /\ args \in DbTriples
    /\ locals' = p1db_locals(args[1], args[2], args[3])
    /\ Finish("cascade_output_p1db",
              Ret(cascade_output_p1db(args[1], args[2], args[3])))
    /\ UNCHANGED <<stages, args, linear_stages, prev, rounding, threads, fold>>

\* a scalar function called on fresh arguments
Fresh(name, value) ==
    /\ pc = "ready"
    /\ Finish(name, Ret(value))
    /\ UNCHANGED <<stages, args, linear_stages, locals, prev, rounding, threads, fold>>

\* a scalar function called on the result of the call before it, new_args
\* being that result and the caller's other arguments
PassedOn(from, name, new_args, value) ==
    /\ pc = "returned" /\ call = from /\ prev = NoCall
    /\ prev' = [call |-> call, args |-> args, result |-> result]
    /\ args' = new_args
    /\ Finish(name, Ret(value))
    /\ UNCHANGED <<stages, linear_stages, locals, rounding, threads, fold>>

Call_input_to_output_db ==
    \/ /\ args \in P1dbPairs
       /\ Fresh("input_to_output_db", input_to_output_db(args[1], args[2]))
    \/ PassedOn("output_to_input_db", "input_to_output_db", <<result, args[2]>>,
                input_to_output_db(result, args[2]))

Call_output_to_input_db ==
    \/ /\ args \in P1dbPairs
       /\ Fresh("output_to_input_db", output_to_input_db(args[1], args[2]))
    \/ PassedOn("input_to_output_db", "output_to_input_db", <<result, args[2]>>,
                output_to_input_db(result, args[2]))

Call_noise_power_from_bandwidth ==
    /\ args \in NoisePowerArgs
    /\ Fresh("noise_power_from_bandwidth",
             noise_power_from_bandwidth(args[1], args[2]))

Call_noise_temperature_from_noise_factor ==
    \/ /\ args \in NoiseFactorArgs
       /\ Fresh("noise_temperature_from_noise_factor",
                noise_temperature_from_noise_factor(args[1]))
    \/ PassedOn("noise_factor_from_noise_temperature",
                "noise_temperature_from_noise_factor", <<result>>,
                noise_temperature_from_noise_factor(result))

Call_noise_factor_from_noise_temperature ==
    \/ /\ args \in NoiseTemperatureArgs
       /\ Fresh("noise_factor_from_noise_temperature",
                noise_factor_from_noise_temperature(args[1]))
    \/ PassedOn("noise_temperature_from_noise_factor",
                "noise_factor_from_noise_temperature", <<result>>,
                noise_factor_from_noise_temperature(result))

Call_noise_temperature_from_noise_figure ==
    /\ args \in NoiseFigureArgs
    /\ Fresh("noise_temperature_from_noise_figure",
             noise_temperature_from_noise_figure(args[1]))

Call_noise_figure_from_noise_temperature ==
    \/ /\ args \in NoiseTemperatureArgs
       /\ Fresh("noise_figure_from_noise_temperature",
                noise_figure_from_noise_temperature(args[1]))
    \/ PassedOn("noise_temperature_from_noise_figure",
                "noise_figure_from_noise_temperature", <<result>>,
                noise_figure_from_noise_temperature(result))

Call_dbm_to_dbw ==
    \/ /\ args \in DbPowerArgs
       /\ Fresh("dbm_to_dbw", dbm_to_dbw(args[1]))
    \/ PassedOn("dbw_to_dbm", "dbm_to_dbw", <<result>>, dbm_to_dbw(result))

Call_dbw_to_dbm ==
    \/ /\ args \in DbPowerArgs
       /\ Fresh("dbw_to_dbm", dbw_to_dbm(args[1]))
    \/ PassedOn("dbm_to_dbw", "dbw_to_dbm", <<result>>, dbw_to_dbm(result))

Call_frequency_to_wavelength ==
    /\ args \in FrequencyArgs
    /\ Fresh("frequency_to_wavelength", frequency_to_wavelength(args[1]))

Call_wavelength_to_frequency ==
    PassedOn("frequency_to_wavelength", "wavelength_to_frequency", <<result>>,
             wavelength_to_frequency(result))

\* the unit conversion called name, as <<name, from, to>>
Conversion(name) == CHOOSE c \in UnitConversions : c[1] = name

\* called on a fresh value, or on the result of a conversion into the unit
\* that name reads
Call_unit_conversion(name) ==
    \/ /\ args \in UnitArgs
       /\ Fresh(name, unit_conversion(name, args[1]))
    \/ \E before \in UnitConversions :
          /\ before[3] = Conversion(name)[2]
          /\ PassedOn(before[1], name, <<result>>, unit_conversion(name, result))

Call_log_conversion(name) ==
    /\ args \in LogArgs
    /\ Fresh(name, log_conversion(name, args[1]))

\* let mut cumulative = stages[0].0
Fold_seed(name, chains) ==
    /\ pc = "ready" /\ args = <<>>
    /\ stages \in chains
    /\ fold' = <<stages[1][1]>>
    /\ pc' = "folding"
    /\ call' = name
    /\ UNCHANGED <<stages, args, linear_stages, locals, result, panic_msg, prev,
                   rounding, threads>>

\* cumulative = cascade_output_p1db(cumulative, op1db, gain), for the next stage
Fold_cascade_output_p1db ==
    /\ pc = "folding" /\ call = "cascade_output_p1db"
    /\ Len(fold) < Len(stages)
    /\ LET stage == stages[Len(fold) + 1]
           cumulative == cascade_output_p1db(fold[Len(fold)], stage[1], stage[2])
       IN  /\ fold' = Append(fold, cumulative)
           /\ result' = cumulative
    /\ UNCHANGED <<pc, call, stages, args, linear_stages, locals, panic_msg, prev,
                   rounding, threads>>

\* cumulative = cascade_output_p1db_linear(cumulative, op1db, gain), for the
\* next stage
Fold_cascade_output_p1db_linear ==
    /\ pc = "folding" /\ call = "cascade_output_p1db_linear"
    /\ Len(fold) < Len(stages)
    /\ LET stage == stages[Len(fold) + 1]
           cumulative == cascade_output_p1db_linear(fold[Len(fold)], stage[1],
                                                    stage[2])
       IN  /\ fold' = Append(fold, cumulative)
           /\ result' = cumulative
    /\ UNCHANGED <<pc, call, stages, args, linear_stages, locals, panic_msg, prev,
                   rounding, threads>>

Next ==
    \/ Call_cascade_noise_factor
    \/ Call_cascade_noise_figure
    \/ Call_cascade_noise_temperature
    \/ Call_cascade_output_p1db_linear
    \/ Call_cascade_output_p1db
    \/ Call_input_to_output_db
    \/ Call_output_to_input_db
    \/ Call_noise_power_from_bandwidth
    \/ Call_noise_temperature_from_noise_factor
    \/ Call_noise_factor_from_noise_temperature
    \/ Call_noise_temperature_from_noise_figure
    \/ Call_noise_figure_from_noise_temperature
    \/ Call_dbm_to_dbw
    \/ Call_dbw_to_dbm
    \/ Call_frequency_to_wavelength
    \/ Call_wavelength_to_frequency
    \/ \E c \in UnitConversions : Call_unit_conversion(c[1])
    \/ \E name \in LogConversions : Call_log_conversion(name)
    \/ Fold_seed("cascade_output_p1db", P1dbDbChains)
    \/ Fold_cascade_output_p1db
    \/ Fold_seed("cascade_output_p1db_linear", P1dbLinearChains)
    \/ Fold_cascade_output_p1db_linear

Spec == Init /\ [][Next]_vars

\* the conversions among Hz, kHz and MHz
KiloMegaConversions ==
    {c \in UnitConversions : {c[2], c[3]} \subseteq {"hz", "khz", "mhz"}}

NextF ==
    \/ Call_input_to_output_db
    \/ Call_output_to_input_db
    \/ Call_dbm_to_dbw
    \/ Call_dbw_to_dbm
    \/ Call_frequency_to_wavelength
    \/ Call_wavelength_to_frequency
    \/ \E c \in KiloMegaConversions : Call_unit_conversion(c[1])

SpecF == InitF /\ [][NextF]_vars

(***************************************************************************)
(* Concurrent callers.  Each thread owns its chain and calls one cascade   *)
(* function; the call runs one statement at a time (the assertion and the  *)
(* initialisation, each loop iteration, the return) and the threads        *)
(* interleave.  Every variable of the functions is a local of the call.    *)
(***************************************************************************)
Threads == 1..NumThreads

ThreadCalls ==
    ({"cascade_noise_factor"} \X
        {<<>>, <<StageLNA>>, <<StageLNA, StageMixer>>, <<StageMixer, StageLNA>>})
    \cup ({"cascade_noise_figure"} \X
        {<<>>, <<<<Fin(10, 1), Fin(20, 1)>>, <<Fin(20, 1), Fin(-10, 1)>>>>})
    \cup ({"cascade_noise_temperature"} \X
        {<<>>, <<<<Fin(35, 1), Fin(100, 1)>>, <<Fin(75, 1), Fin(1, 5)>>>>})

Frame(fn, chain) ==
    [fn |-> fn, chain |-> chain, pc |-> "ready", slice |-> <<>>, i |-> 0,
     acc |-> <<>>, result |-> NoValue, panic_msg |-> ""]

InitT ==
    /\ pc = "ready"
    /\ call = "none"
    /\ rounding = FALSE
    /\ stages = <<>>
    /\ args = <<>>
    /\ linear_stages = <<>>
    /\ locals = <<>>
    /\ result = NoValue
    /\ panic_msg = ""
    /\ prev = NoCall
    /\ fold = <<>>
    /\ threads \in [Threads -> {Frame(c[1], c[2]) : c \in ThreadCalls}]

\* mutant: the accumulators are one static shared by all calls
StoreShared(frames, t, frame) ==
    [u \in DOMAIN frames |->
        IF u = t THEN frame ELSE [frames[u] EXCEPT !.acc = frame.acc]]

\* thread t's frame after a statement; nothing else is written
Store(frames, t, frame) == [frames EXCEPT ![t] = frame]

\* the slice the fold runs over: stages, or cascade_noise_figure's linear_stages
SliceOf(fn, chain) ==
    IF fn = "cascade_noise_figure" THEN to_linear_stages(chain) ELSE chain

\* assert!(!stages.is_empty()), then the two accumulators are initialised
Enter(t) ==
    LET f == threads[t]
        s == SliceOf(f.fn, f.chain)
    IN  /\ f.pc = "ready"
        /\ threads' = Store(threads, t,
              IF Len(s) = 0
              THEN [f EXCEPT !.pc = "panicked", !.slice = s, !.panic_msg = EmptyMsg]
              ELSE [f EXCEPT !.pc = "loop", !.slice = s, !.i = 2,
                             !.acc = <<s[1][1], s[1][2]>>])
        /\ UNCHANGED <<pc, call, stages, args, linear_stages, locals, result,
                       panic_msg, prev, rounding, fold>>

\* one iteration of the for loop
Iterate(t) ==
    LET f == threads[t]
    IN  /\ f.pc = "loop" /\ f.i <= Len(f.slice)
        /\ threads' = Store(threads, t,
              [f EXCEPT !.i = f.i + 1,
                        !.acc = IF f.fn = "cascade_noise_temperature"
                                THEN noise_temperature_step(f.acc, f.slice[f.i])
                                ELSE noise_factor_step(f.acc, f.slice[f.i])])
        /\ UNCHANGED <<pc, call, stages, args, linear_stages, locals, result,
                       panic_msg, prev, rounding, fold>>

\* the loop is over: the total is returned
Leave(t) ==
    LET f == threads[t]
    IN  /\ f.pc = "loop" /\ f.i > Len(f.slice)
        /\ threads' = Store(threads, t,
              [f EXCEPT !.pc = "returned",
                        !.result = IF f.fn = "cascade_noise_figure"
                                   THEN noise_figure_from_noise_factor(f.acc[1])
                                   ELSE f.acc[1]])
        /\ UNCHANGED <<pc, call, stages, args, linear_stages, locals, result,
                       panic_msg, prev, rounding, fold>>

NextT == \E t \in Threads : Enter(t) \/ Iterate(t) \/ Leave(t)

SpecT == InitT /\ [][NextT]_vars

\* what the call returns when it runs alone
RunAlone(fn, chain) ==
    CASE fn = "cascade_noise_factor" -> cascade_noise_factor(chain)
      [] fn = "cascade_noise_figure" -> cascade_noise_figure(chain)
      [] fn = "cascade_noise_temperature" -> cascade_noise_temperature(chain)

(***************************************************************************)
(* Helpers of the properties.                                              *)
(***************************************************************************)
IsFinite(x) == x.k \in {"fin", "nzero"}
\* a < b, for finite rationals
Less(a, b) ==
    LET g == GCD(a.d, b.d)
    IN  a.n * (b.d \div g) < b.n * (a.d \div g)
\* |a - b| < tol, for finite rationals
Near(a, b, tol) ==
    LET diff == Sub(a, b)
    IN  IsFinite(diff) /\ Less(Neg(tol), diff) /\ Less(diff, tol)

Called(name)   == call = name
Returned(name) == call = name /\ pc = "returned"
\* name returned, called on the result of from
RoundTrip(from, name) == Returned(name) /\ prev.call = from

\* G_1 * ... * G_(i-1), the gain in front of stage i (i >= 2)
RECURSIVE GainBefore(_, _)
GainBefore(s, i) ==
    IF i = 2 THEN s[1][2] ELSE Mul(GainBefore(s, i - 1), s[i - 1][2])

\* F_1 + (F_2 - 1)/G_1 + ... + (F_i - 1)/(G_1 ... G_(i-1))
RECURSIVE FriisSum(_, _)
FriisSum(s, i) ==
    IF i = 1 THEN s[1][1]
    ELSE Add(FriisSum(s, i - 1), Div(Sub(s[i][1], One), GainBefore(s, i)))

\* T_1 + T_2/G_1 + ... + T_i/(G_1 ... G_(i-1))
RECURSIVE TemperatureSum(_, _)
TemperatureSum(s, i) ==
    IF i = 1 THEN s[1][1]
    ELSE Add(TemperatureSum(s, i - 1), Div(s[i][1], GainBefore(s, i)))


(***************************************************************************)
(* C1: for every non-empty chain of (noise_factor, gain) stages,           *)
(* cascade_noise_factor returns the Friis sum                              *)
(* F1 + (F2-1)/G1 + (F3-1)/(G1*G2) + ..., each stage's excess noise        *)
(* divided by the product of the gains of the stages before it.  After    *)
(* each stage i the running total is the Friis sum of stages 1..i and the  *)
(* cumulative gain is G1*...*Gi: the stage's own gain enters only after    *)
(* its term was added.                                                      *)
(***************************************************************************)
C1_FriisSum ==
    (Called("cascade_noise_factor") /\ Len(stages) > 0)
        => /\ pc = "returned"
           /\ result = FriisSum(stages, Len(stages))
           /\ \A i \in 1..Len(stages) :
                 noise_factor_loop(stages, i)
                     = <<FriisSum(stages, i), GainBefore(stages, i + 1)>>

C1_Witness ==
    /\ Returned("cascade_noise_factor")
    /\ stages = <<StageLNA, StageMixer, <<Fin(2, 1), One>>>>
    /\ result = Fin(12231, 10000)

(***************************************************************************)
(* C2: cascade_noise_factor on an empty chain panics with the message      *)
(* "stages must not be empty" and returns no value.                        *)
(***************************************************************************)
C2_EmptyFactorPanics ==
    (Called("cascade_noise_factor") /\ Len(stages) = 0)
        => /\ pc = "panicked"
           /\ panic_msg = "stages must not be empty"
           /\ result = NoValue

C2_Witness ==
    /\ Called("cascade_noise_factor")
    /\ stages = <<>>
    /\ pc = "panicked"

(***************************************************************************)
(* C3: cascade_noise_temperature and cascade_noise_figure on an empty      *)
(* chain panic with the same message and return no value.                  *)
(***************************************************************************)
C3_EveryCascadePanicsOnEmpty ==
    ((Called("cascade_noise_temperature") \/ Called("cascade_noise_figure"))
        /\ Len(stages) = 0)
        => /\ pc = "panicked"
           /\ panic_msg = "stages must not be empty"
           /\ result = NoValue

C3_Witness ==
    /\ Called("cascade_noise_figure")
    /\ stages = <<>>
    /\ linear_stages = <<>>
    /\ pc = "panicked"

(***************************************************************************)
(* C4: for a single-stage chain [(F, G)] cascade_noise_factor returns      *)
(* exactly F, whatever G is.                                                *)
(***************************************************************************)
C4_SingleStage ==
    (Called("cascade_noise_factor") /\ Len(stages) = 1)
        => /\ pc = "returned"
           /\ result = stages[1][1]

C4_Witness ==
    /\ Returned("cascade_noise_factor")
    /\ stages = <<<<Fin(631, 100), Zero>>>>
    /\ result = Fin(631, 100)

(***************************************************************************)
(* C5: the cascade depends on the order of the stages.  For                *)
(* A = (1.12, 100) and B = (6.31, 0.2), [A, B] gives about 1.1731 and      *)
(* [B, A] about 6.91; the reversed order is the larger and the two differ  *)
(* by more than 5.                                                          *)
(***************************************************************************)
C5_OrderMatters ==
    Returned("cascade_noise_factor") =>
        /\ stages = <<StageLNA, StageMixer>> =>
              LET bad == cascade_noise_factor(<<StageMixer, StageLNA>>).value
              IN  /\ Near(result, Fin(11731, 10000), Fin(1, 1000))
                  /\ Near(bad, Fin(691, 100), Fin(1, 100))
                  /\ Less(result, bad)
                  /\ Less(Fin(5, 1), Sub(bad, result))
        /\ stages = <<StageMixer, StageLNA>> =>
              /\ Near(result, Fin(691, 100), Fin(1, 100))
              /\ result # cascade_noise_factor(<<StageLNA, StageMixer>>).value

C5_Witness ==
    /\ Returned("cascade_noise_factor")
    /\ stages = <<StageMixer, StageLNA>>
    /\ result = Fin(691, 100)

(***************************************************************************)
(* C6: for every non-empty chain of (temperature, gain) stages,            *)
(* cascade_noise_temperature returns T1 + T2/G1 + T3/(G1*G2) + ..., each   *)
(* temperature divided by the product of the gains of the stages before    *)
(* it.                                                                      *)
(***************************************************************************)
C6_TemperatureSum ==
    (Called("cascade_noise_temperature") /\ Len(stages) > 0)
        => /\ pc = "returned"
           /\ result = TemperatureSum(stages, Len(stages))

C6_Witness ==
    /\ Returned("cascade_noise_temperature")
    /\ stages = <<<<Fin(35, 1), Fin(100, 1)>>, <<Fin(75, 1), Fin(1, 5)>>,
                  <<Fin(290, 1), One>>>>
    /\ result = Fin(201, 4)

\* the chain converted stage by stage to (noise temperature, linear gain)
TemperatureStagesOf(s) ==
    [i \in 1..Len(s) |->
        <<noise_temperature_from_noise_figure(s[i][1]), db_to_linear(s[i][2])>>]

C8_FigureIsWrapper ==
    Called("cascade_noise_figure") =>
        /\ Len(linear_stages) = Len(stages)
        /\ \A i \in 1..Len(stages) :
              /\ linear_stages[i][1] = powf10(Div(stages[i][1], Ten))
              /\ linear_stages[i][2] = powf10(Div(stages[i][2], Ten))
        /\ Len(stages) > 0 =>
              /\ pc = "returned"
              /\ result = Mul(Ten, log10(FriisSum(linear_stages, Len(linear_stages))))

C8_Witness ==
    /\ Returned("cascade_noise_figure")
    /\ stages = <<<<Zero, Fin(20, 1)>>, <<Fin(10, 1), Fin(-10, 1)>>,
                  <<Fin(20, 1), Zero>>>>
    /\ linear_stages = <<<<One, Fin(100, 1)>>, <<Ten, Fin(1, 10)>>,
                         <<Fin(100, 1), One>>>>
    /\ result = LogOf(1099, 100, 10)

(***************************************************************************)
(* C9: cascade_output_p1db_linear(cum, stage, gain) is                     *)
(* 1 / ((1/cum)*gain + 1/stage) for all inputs, zero included (IEEE        *)
(* arithmetic), which for positive values is cum*stage / (gain*stage +     *)
(* cum); (100, 50, 2) gives 25 and (100, 100, 1) gives 50.                  *)
(***************************************************************************)
AllPositive(t) == \A i \in 1..Len(t) : t[i].k = "fin" /\ t[i].n > 0

C9_P1dbLinearFormula ==
    Returned("cascade_output_p1db_linear") =>
        LET reciprocal_sum == Add(Mul(Div(One, args[1]), args[3]), Div(One, args[2]))
        IN  /\ result = Div(One, reciprocal_sum)
            /\ AllPositive(args) =>
                  /\ result = Div(Mul(args[1], args[2]),
                                  Add(Mul(args[3], args[2]), args[1]))
                  /\ Mul(result, reciprocal_sum) = One
            /\ args = <<Fin(100, 1), Fin(50, 1), Fin(2, 1)>> => result = Fin(25, 1)
            /\ args = <<Fin(100, 1), Fin(100, 1), One>> => result = Fin(50, 1)

C9_Witness ==
    /\ Returned("cascade_output_p1db_linear")
    /\ args = <<Fin(100, 1), Fin(50, 1), Fin(2, 1)>>
    /\ result = Fin(25, 1)

(***************************************************************************)
(* C10: cascade_output_p1db is the dB image of the linear formula: the     *)
(* three dB arguments are converted with db_to_linear and passed on in the *)
(* same order (cumulative, stage, gain), and the result is linear_to_db of *)
(* the linear cascade.  (The 34 dB example is not a multiple of 10 dB and  *)
(* lies outside the inputs of the model.)                                   *)
(***************************************************************************)
C10_P1dbIsDbImage ==
    Returned("cascade_output_p1db") =>
        /\ locals = <<db_to_linear(args[1]), db_to_linear(args[2]),
                      db_to_linear(args[3])>>
        /\ result = linear_to_db(
                        Div(Mul(locals[1], locals[2]),
                            Add(Mul(locals[3], locals[2]), locals[1])))

C10_Witness ==
    /\ Returned("cascade_output_p1db")
    /\ args = <<Fin(30, 1), Fin(20, 1), Fin(30, 1)>>
    /\ locals = <<Fin(1000, 1), Fin(100, 1), Fin(1000, 1)>>
    /\ result = LogOf(100, 101, 10)

(***************************************************************************)
(* C11: cascading never improves compression headroom: for positive        *)
(* arguments, with any gain (amplifier or attenuator),                     *)
(* cascade_output_p1db_linear(cum, stage, gain) is at most stage and at    *)
(* most cum * gain; in dB, cascade_output_p1db(c, s, g) is at most s and   *)
(* at most c + g.                                                          *)
(***************************************************************************)
LessEq(a, b) == ~Less(b, a)
\* a <= b for two dB values, compared through the increasing map 10^(x/10)
LessEqDb(a, b) == LessEq(db_to_linear(a), db_to_linear(b))

C11_NeverImprovesHeadroom ==
    /\ (Returned("cascade_output_p1db_linear") /\ AllPositive(args))
          => /\ LessEq(result, args[2])
             /\ LessEq(result, Mul(args[1], args[3]))
    /\ Returned("cascade_output_p1db")
          => /\ LessEqDb(result, args[2])
             /\ LessEqDb(result, Add(args[1], args[3]))

(***************************************************************************)
(* C12: input_to_output_db(ip1db, gain_db) = ip1db + gain_db - 1 and       *)
(* output_to_input_db(op1db, gain_db) = op1db - gain_db + 1, for every     *)
(* gain, zero and negative gains included: input_to_output_db(20, -10) = 9 *)
(* and output_to_input_db(9, -10) = 20.                                    *)
(***************************************************************************)
C12_P1dbOffsetFormulas ==
    /\ Returned("input_to_output_db") =>
          /\ result = Sub(Add(args[1], args[2]), One)
          /\ args[2] = Zero => result = Sub(args[1], One)
          /\ args = <<Fin(20, 1), Fin(-10, 1)>> => result = Fin(9, 1)
    /\ Returned("output_to_input_db") =>
          /\ result = Add(Sub(args[1], args[2]), One)
          /\ args[2] = Zero => result = Add(args[1], One)
          /\ args = <<Fin(9, 1), Fin(-10, 1)>> => result = Fin(20, 1)

C12_Witness ==
    /\ Returned("output_to_input_db")
    /\ prev.call = "input_to_output_db"
    /\ prev.args = <<Fin(20, 1), Fin(-10, 1)>>
    /\ args = <<Fin(9, 1), Fin(-10, 1)>>
    /\ result = Fin(20, 1)

(***************************************************************************)
(* C13 as stated: input_to_output_db and output_to_input_db are exact      *)
(* inverses: for every P1dB value p and every gain g,                      *)
(* output_to_input_db(input_to_output_db(p, g), g) = p and                 *)
(* input_to_output_db(output_to_input_db(p, g), g) = p.                    *)
(***************************************************************************)
C13_ExactInverses ==
    /\ RoundTrip("input_to_output_db", "output_to_input_db") => result = prev.args[1]
    /\ RoundTrip("output_to_input_db", "input_to_output_db") => result = prev.args[1]

\* the unit roundoff 2^-SignificandBits, half the gap between 1 and the
\* next value of the format
UnitRoundoff == Fin(1, IntPow(2, SignificandBits))
AbsVal(x) == IF SignBit(x) THEN Neg(x) ELSE x
\* |a - b| <= bound
Within(a, b, bound) == LessEq(AbsVal(Sub(a, b)), bound)

(***************************************************************************)
(* C13: in f64 the two functions are inverses up to the rounding of the    *)
(* two additions: with s the intermediate value and r the value that       *)
(* comes back, |r - p| <= u * (|s| + |r|), u the unit roundoff; r = p      *)
(* exactly when the first call's sum p +/- (g - 1) was computed without    *)
(* rounding.                                                               *)
(***************************************************************************)
C13_InversesUpToRounding ==
    /\ RoundTrip("input_to_output_db", "output_to_input_db") =>
          LET p == prev.args[1]
              h == FSub(prev.args[2], Lit(1, 1))
          IN  /\ Within(result, p, Mul(UnitRoundoff,
                                       Add(AbsVal(prev.result), AbsVal(result))))
              /\ prev.result = Add(p, h) => result = p
    /\ RoundTrip("output_to_input_db", "input_to_output_db") =>
          LET p == prev.args[1]
              h == FSub(prev.args[2], Lit(1, 1))
          IN  /\ Within(result, p, Mul(UnitRoundoff,
                                       Add(AbsVal(prev.result), AbsVal(result))))
              /\ prev.result = Sub(p, h) => result = p

\* a round trip that does not return its input
C13_Witness ==
    /\ RoundTrip("input_to_output_db", "output_to_input_db")
    /\ result # prev.args[1]

(***************************************************************************)
(* C14: noise_power_from_bandwidth(temperature, bandwidth) returns         *)
(* k * temperature * bandwidth watts, k being the library's BOLTZMANN      *)
(* constant 1.380649e-23 J/K, for all temperatures and bandwidths.         *)
(***************************************************************************)
C14_NoisePowerUsesBoltzmann ==
    Returned("noise_power_from_bandwidth") =>
        result = DecMul(DecMul(BOLTZMANN, args[1]), args[2])

C18_ExactWavelengthRoundTrip ==
    /\ Returned("frequency_to_wavelength") =>
          result = Rnd(Div(Lit(SPEED_OF_LIGHT, 1), args[1]))
    /\ RoundTrip("frequency_to_wavelength", "wavelength_to_frequency") =>
          /\ result = Rnd(Div(Lit(SPEED_OF_LIGHT, 1), args[1]))
          /\ result = prev.args[1]

(***************************************************************************)
(* C18: both functions divide SPEED_OF_LIGHT by their argument, and for    *)
(* every frequency f > 0 the round trip returns f up to the rounding of    *)
(* the two divisions: |r - f| <= 3 * u * f, u the unit roundoff.           *)
(***************************************************************************)
C18_WavelengthRoundTripUpToRounding ==
    /\ Returned("frequency_to_wavelength") =>
          result = Rnd(Div(Lit(SPEED_OF_LIGHT, 1), args[1]))
    /\ RoundTrip("frequency_to_wavelength", "wavelength_to_frequency") =>
          /\ result = Rnd(Div(Lit(SPEED_OF_LIGHT, 1), args[1]))
          /\ Within(result, prev.args[1],
                    Mul(Mul(Fin(3, 1), UnitRoundoff), prev.args[1]))

\* a round trip that does not return the frequency
C18_Witness ==
    /\ RoundTrip("frequency_to_wavelength", "wavelength_to_frequency")
    /\ result # prev.args[1]

(***************************************************************************)
(* C19 as stated: dbm_to_dbw(d) = d - 30 and dbw_to_dbm(d) = d + 30 for    *)
(* every d, computed without a logarithm, and the two are exact inverses:  *)
(* dbw_to_dbm(dbm_to_dbw(d)) = d and dbm_to_dbw(dbw_to_dbm(d)) = d.        *)
(***************************************************************************)
C19_ExactDbmDbw ==
    /\ Returned("dbm_to_dbw") => result = Rnd(Sub(args[1], Fin(30, 1)))
    /\ Returned("dbw_to_dbm") => result = Rnd(Add(args[1], Fin(30, 1)))
    /\ RoundTrip("dbm_to_dbw", "dbw_to_dbm") => result = prev.args[1]
    /\ RoundTrip("dbw_to_dbm", "dbm_to_dbw") => result = prev.args[1]

(***************************************************************************)
(* C19: dbm_to_dbw(d) is the f64 difference d - 30 and dbw_to_dbm(d) the   *)
(* f64 sum d + 30, with no logarithm; the two are inverses up to the       *)
(* rounding of the two operations: with s the intermediate value and r     *)
(* the value that comes back, |r - d| <= u * (|s| + |r|), and r = d        *)
(* exactly when the first operation was computed without rounding.         *)
(***************************************************************************)
C19_DbmDbwUpToRounding ==
    /\ Returned("dbm_to_dbw") =>
          /\ result = Rnd(Sub(args[1], Fin(30, 1)))
          /\ ~IsLog(result)
    /\ Returned("dbw_to_dbm") =>
          /\ result = Rnd(Add(args[1], Fin(30, 1)))
          /\ ~IsLog(result)
    /\ RoundTrip("dbm_to_dbw", "dbw_to_dbm") =>
          /\ Within(result, prev.args[1],
                    Mul(UnitRoundoff, Add(AbsVal(prev.result), AbsVal(result))))
          /\ prev.result = Sub(prev.args[1], Fin(30, 1)) => result = prev.args[1]
    /\ RoundTrip("dbw_to_dbm", "dbm_to_dbw") =>
          /\ Within(result, prev.args[1],
                    Mul(UnitRoundoff, Add(AbsVal(prev.result), AbsVal(result))))
          /\ prev.result = Add(prev.args[1], Fin(30, 1)) => result = prev.args[1]

\* a round trip that does not return its input
C19_Witness ==
    /\ RoundTrip("dbm_to_dbw", "dbw_to_dbm")
    /\ result # prev.args[1]

(***************************************************************************)
(* C20: each of the 20 frequency functions X_to_Y over Hz, kHz, MHz, GHz   *)
(* and THz scales its argument by exactly 10^(3 * (rank(X) - rank(Y))),    *)
(* with rank Hz = 0, kHz = 1, MHz = 2, GHz = 3, THz = 4: it multiplies     *)
(* when going to a smaller unit and divides when going to a larger one,    *)
(* and zero maps to zero.                                                  *)
(***************************************************************************)
Rank(unit) ==
    CASE unit = "hz" -> 0 [] unit = "khz" -> 1 [] unit = "mhz" -> 2
      [] unit = "ghz" -> 3 [] unit = "thz" -> 4

\* x * 10^k, by moving the decimal exponent
ScaleByPowerOfTen(x, k) ==
    IF x.m.k = "fin" /\ x.m.n # 0 THEN [m |-> x.m, e |-> x.e + k] ELSE x

C20_UnitScaling ==
    \A c \in UnitConversions :
        Returned(c[1]) =>
            LET k == 3 * (Rank(c[2]) - Rank(c[3]))
            IN  /\ result = ScaleByPowerOfTen(args[1], k)
                /\ k > 0 => result = DecMul(args[1], DecLit(1, k))
                /\ k < 0 => result = DecDiv(args[1], DecLit(1, -k))
                /\ args[1] = DecLit(0, 0) => result = DecLit(0, 0)

C20_Witness ==
    /\ Returned("hz_to_thz")
    /\ args = <<DecLit(275, 8)>>
    /\ result = DecLit(275, -4)

(***************************************************************************)
(* C21: zero or negative input to a logarithmic conversion is not an       *)
(* error: the call returns, never panics, and its value is an IEEE         *)
(* infinity or NaN: -inf for +0 and -0, NaN for a negative input.  In      *)
(* particular watts_to_dbm(0) is negative infinity.                        *)
(***************************************************************************)
C21_LogOfNonPositive ==
    \A name \in LogConversions :
        Called(name) =>
            /\ pc = "returned" /\ panic_msg = ""
            /\ result # NoValue
            /\ IsZero(args[1]) => result = NegInf
            /\ (~IsZero(args[1]) /\ ~IsNaN(args[1]) /\ SignBit(args[1]))
                  => result = NaN

C21_Witness ==
    /\ Returned("watts_to_dbm")
    /\ args = <<Zero>>
    /\ result = NegInf

(***************************************************************************)
(* C22: the library has no mutable state.  With calls of several threads   *)
(* interleaved in any order, every call that has returned or panicked      *)
(* gives what the same call gives when run alone; a statement of one       *)
(* thread writes nothing another thread reads, and no call modifies the    *)
(* caller's stage chain.                                                   *)
(***************************************************************************)
C22_NoSharedState ==
    /\ [](\A t \in Threads :
            LET f == threads[t]
                alone == RunAlone(f.fn, f.chain)
            IN  /\ f.pc = "returned" =>
                      alone.kind = "ret" /\ f.result = alone.value
                /\ f.pc = "panicked" =>
                      alone.kind = "panic" /\ f.panic_msg = alone.msg)
    /\ [][\E t \in Threads :
             /\ \A u \in Threads \ {t} : threads'[u] = threads[u]
             /\ threads'[t].chain = threads[t].chain
             /\ threads'[t].fn = threads[t].fn]_vars

\* both threads returned, the second having run between the first one's
\* statements
C22_Witness ==
    /\ threads[1].pc = "returned" /\ threads[2].pc = "returned"
    /\ threads[1].fn = "cascade_noise_factor"
    /\ threads[1].chain = <<StageLNA, StageMixer>>
    /\ threads[2].fn = "cascade_noise_temperature"
    /\ threads[1].result = Fin(11731, 10000)
    /\ threads[2].result = Fin(143, 4)

(***************************************************************************)
(* C23: folding a chain of (OP1dB, gain) stages left to right with         *)
(* cascade_output_p1db, seeded with the first stage's OP1dB: when every    *)
(* stage gain is >= 0 dB, the cumulative OP1dB after each step is strictly *)
(* below the previous cumulative value and strictly below the OP1dB of     *)
(* the stage just applied, so the final result is below the OP1dB of       *)
(* every stage of the chain.                                               *)
(***************************************************************************)
LessDb(a, b) == Less(db_to_linear(a), db_to_linear(b))
GainsAtLeast(s, floor) == \A i \in 1..Len(s) : LessEq(floor, s[i][2])

Prefix(s, n) == SubSeq(s, 1, n)
\* every stage has noise factor >= 1 and gain > 0
PassiveOrBetter(s) ==
    \A i \in 1..Len(s) : LessEq(One, s[i][1]) /\ Less(Zero, s[i][2])

IsNumber(x) == x.k \in {"fin", "nzero", "pinf", "ninf", "nan", "log"}

C25_OnlyEmptinessFails ==
    \A name \in {"cascade_noise_factor", "cascade_noise_figure",
                 "cascade_noise_temperature"} :
        Called(name) =>
            /\ pc = "panicked" <=> Len(stages) = 0
            /\ Len(stages) > 0 =>
                  pc = "returned" /\ panic_msg = "" /\ IsNumber(result)

\* a chain with a negative temperature and a zero gain returns an infinity
C25_Witness ==
    /\ Returned("cascade_noise_temperature")
    /\ stages = <<<<Fin(10, 1), Zero>>, <<Zero, Fin(-10, 1)>>,
                  <<Fin(10, 1), Fin(10, 1)>>>>
    /\ IsInf(result) \/ IsNaN(result)

(***************************************************************************)
(* C26 as stated: the frequency unit functions compose consistently: for   *)
(* units X, Y, Z and any value v, Y_to_Z(X_to_Y(v)) equals X_to_Z(v) and   *)
(* Y_to_X(X_to_Y(v)) equals v, within 1e-6 in floating point.              *)
(***************************************************************************)
\* the value the two-step chain is compared with: v itself when the chain
\* comes back to its unit, X_to_Z(v) otherwise
DirectValue ==
    LET x == Conversion(prev.call)[2]
        z == Conversion(call)[3]
        v == prev.args[1]
    IN  IF x = z THEN v
        ELSE unit_conversion((CHOOSE c \in UnitConversions :
                                  c[2] = x /\ c[3] = z)[1], v)
\* a conversion called on the result of a conversion
UnitChain ==
    /\ pc = "returned"
    /\ \E c \in UnitConversions : c[1] = call
    /\ \E c \in UnitConversions : c[1] = prev.call

\* the tolerance of tests/frequency_conversions.rs
EPSILON == Fin(1, 1000000)
\* |a - b| <= 1 / k, for finite a and b: n / d <= 1 / k iff n <= d \div k
WithinOneOver(a, b, k) ==
    LET diff == AbsVal(Sub(a, b)) IN diff.n <= diff.d \div k

WithLastGain(s, gain) == [s EXCEPT ![Len(s)] = <<s[Len(s)][1], gain>>]
\* gains a last stage is given: the gains of the chains, a negative one, infinity
LastGains == LinearGains \cup {Fin(-10, 1), Fin(7, 3), PosInf}

C27_LastGainIgnored ==
    /\ (Returned("cascade_noise_factor") /\ Len(stages) > 0) =>
          \A gain \in LastGains :
              cascade_noise_factor(WithLastGain(stages, gain)) = Ret(result)
    /\ (Returned("cascade_noise_temperature") /\ Len(stages) > 0) =>
          \A gain \in LastGains :
              cascade_noise_temperature(WithLastGain(stages, gain)) = Ret(result)

C27_Witness ==
    /\ Returned("cascade_noise_factor")
    /\ stages = <<StageLNA, StageMixer>>
    /\ result = Fin(11731, 10000)
    /\ WithLastGain(stages, Fin(100, 1)) # stages
    /\ cascade_noise_factor(WithLastGain(stages, Fin(100, 1))).value = result

(***************************************************************************)
(* C28: the noise-factor and the noise-temperature cascades agree: for     *)
(* every non-empty chain with non-zero gains,                              *)
(* cascade_noise_factor([(F_i, G_i)]) equals                               *)
(* 1 + cascade_noise_temperature([(290 * (F_i - 1), G_i)]) / 290, and so   *)
(* do the running totals after every stage.  Rounding is not modelled:     *)
(* the agreement is of the exact values, for chains whose gain in front    *)
(* of the last stage is at most 10^4 (beyond it the exact temperature      *)
(* total no longer fits the 32-bit integers TLC computes with).            *)
(***************************************************************************)
\* the chain with every noise factor replaced by 290 * (F - 1)
AsTemperatures(s) ==
    [i \in 1..Len(s) |-> <<noise_temperature_from_noise_factor(s[i][1]), s[i][2]>>]
NonZeroGains(s) == \A i \in 1..Len(s) : ~IsZero(s[i][2])
\* the gain in front of the last stage is at most 10^4
ModerateGain(s) ==
    Len(s) > 1 => LessEq(AbsVal(GainBefore(s, Len(s))), Fin(10000, 1))
\* 1 + t / 290
FactorOf(t) == Add(One, Div(t, Fin(T0, 1)))

RECURSIVE FoldLinear(_, _)
FoldLinear(s, i) ==
    IF i = 1 THEN s[1][1]
    ELSE cascade_output_p1db_linear(FoldLinear(s, i - 1), s[i][1], s[i][2])

\* g_(i+1) * ... * g_n, the gain behind stage i within the first n stages
RECURSIVE GainBehind(_, _, _)
GainBehind(s, i, n) ==
    IF i = n THEN One ELSE Mul(s[i + 1][2], GainBehind(s, i + 1, n))

\* the sum over i = k..n of GainBehind(s, i, n) / s_i
RECURSIVE ReferredSum(_, _, _)
ReferredSum(s, k, n) ==
    IF k > n THEN Zero
    ELSE Add(Div(GainBehind(s, k, n), s[k][1]), ReferredSum(s, k + 1, n))

WithFirstGain(s, gain) == [s EXCEPT ![1] = <<s[1][1], gain>>]
Reversed(s) == [i \in 1..Len(s) |-> s[Len(s) + 1 - i]]

C29_FoldClosedForm ==
    (pc = "folding" /\ call = "cascade_output_p1db_linear") =>
        /\ fold[1] = stages[1][1]
        /\ \A i \in 2..Len(fold) :
              fold[i] = cascade_output_p1db_linear(fold[i - 1], stages[i][1],
                                                   stages[i][2])
        /\ \A i \in 1..Len(fold) : Div(One, fold[i]) = ReferredSum(stages, 1, i)
        /\ \A gain \in {Zero, Fin(1, 10), Fin(7, 1), Fin(-3, 1)} :
              FoldLinear(WithFirstGain(stages, gain), Len(fold)) = fold[Len(fold)]
        /\ (/\ Len(fold) = 2 /\ Len(stages) = 2
            /\ stages[1][1] # stages[2][1]
            /\ stages[1][2] = stages[2][2] /\ stages[1][2] # One)
              => FoldLinear(Reversed(stages), 2) # fold[2]

C29_Witness ==
    /\ pc = "folding" /\ call = "cascade_output_p1db_linear"
    /\ stages = <<<<Fin(100, 1), Fin(2, 1)>>, <<Fin(50, 1), Fin(1, 10)>>,
                  <<Fin(50, 1), Fin(2, 1)>>>>
    /\ fold = <<Fin(100, 1), Fin(1000, 21), Fin(500, 31)>>
    /\ ReferredSum(stages, 1, 3) = Fin(31, 500)
    /\ FoldLinear(Reversed(stages), 3) # fold[3]

(***************************************************************************)
(* C30: for positive linear inputs cascade_output_p1db_linear(cum, stage,  *)
(* gain) is positive, strictly increasing in cum, strictly increasing in   *)
(* stage and strictly decreasing in gain: raising the gain of the new      *)
(* stage lowers the cascaded output P1dB, lowering it raises it.  Exact    *)
(* values: rounding is not modelled.                                       *)
(***************************************************************************)
\* positive values an argument is raised to or lowered to
Variations == {Fin(1, 3), One, Fin(2, 1), Fin(7, 1), Fin(50, 1), Fin(100, 1), Fin(1000, 1)}

====
